---- MODULE Spec2Model ----
(***************************************************************************)
(* Model of publicvfk (src/publicvfk/__init__.py): VFKBuilder.build_bound  *)
(* with its helpers first_line and add_boundary, and the batch drivers     *)
(* VFKParBuilder.build_all_par / VFKBudBuilder.build_all_bud; and of the    *)
(* page history of VfkTextBrowser (src/vfkTextBrowser.py).                 *)
(*                                                                         *)
(* A point is a pair <<x, y>>; a segment ("vertix") is a sequence of       *)
(* points; list_vertices is a sequence of segments.  The model keeps the   *)
(* remaining list as the sequence of the positions the segments had in the *)
(* input, so that two equal segments stay two list elements.               *)
(***************************************************************************)
EXTENDS Integers, Sequences, FiniteSets, TLC

(***************************************************************************)
(* Bounds and the inputs the model draws from                              *)
(***************************************************************************)
MaxSegs == 4

\* outer square in two halves (the second one joins in 'back' direction)
o1 == << <<0, 0>>, <<4, 0>>, <<4, 4>> >>
o2 == << <<0, 0>>, <<0, 4>>, <<4, 4>> >>
\* a closed triangle inside the square, one segment
i1 == << <<1, 1>>, <<3, 1>>, <<3, 3>>, <<1, 1>> >>
\* a closed degenerate segment inside the triangle's envelope
m1 == << <<2, 2>>, <<2, 2>> >>
\* a closed loop touching the square at its corner (0,0)
t1 == << <<0, 0>>, <<1, 2>>, <<2, 1>>, <<0, 0>> >>
\* the three sides of the triangle (1,1) (3,1) (3,3); s3 is stored reversed
s1 == << <<1, 1>>, <<3, 1>> >>
s2 == << <<3, 1>>, <<3, 3>> >>
s3 == << <<1, 1>>, <<3, 3>> >>
\* a segment passing through (3,1) as an interior point
x1 == << <<3, 3>>, <<3, 1>>, <<1, 3>> >>
\* two closed flat loops whose envelopes cross
h1 == << <<0, 2>>, <<4, 2>>, <<0, 2>> >>
v1 == << <<2, 0>>, <<2, 4>>, <<2, 0>> >>

SegPool == {o1, o2, i1, m1, t1, s1, s2, s3, x1, h1, v1}

\* every list of at most MaxSegs segments of the pool
Inputs == UNION {[1..n -> SegPool] : n \in 0..MaxSegs}

(***************************************************************************)
(* Helpers for Python lists                                                *)
(***************************************************************************)
Last(s) == s[Len(s)]

RemoveAt(s, k) == SubSeq(s, 1, k - 1) \o SubSeq(s, k + 1, Len(s))

Reverse(s) == [i \in 1..Len(s) |-> s[Len(s) + 1 - i]]

Range(s) == {s[i] : i \in 1..Len(s)}

SetMin(S) == CHOOSE a \in S : \A b \in S : a <= b

SetMax(S) == CHOOSE a \in S : \A b \in S : a >= b

\* `p in seg`
Contains(seg, p) == \E i \in 1..Len(seg) : seg[i] = p

\* seg.index(p), counted from 0 as in Python: the first occurrence
IndexOf(seg, p) == SetMin({i \in 1..Len(seg) : seg[i] = p}) - 1

RECURSIVE SumLen(_)
SumLen(ss) == IF ss = <<>> THEN 0 ELSE Len(Head(ss)) + SumLen(Tail(ss))

(***************************************************************************)
(* build_bound: the state of one call                                      *)
(*   rings          the rings built so far, each a sequence of points      *)
(*   ringSegs       for each ring, the input positions of the segments     *)
(*                  added to it, in order                                  *)
(*   list_vertices  the input positions of the segments still in the list  *)
(* The ring being built (`ring`) is always the last of rings.              *)
(***************************************************************************)
EmptyCall(inp) ==
    [rings |-> <<>>, ringSegs |-> <<>>, list_vertices |-> [k \in 1..Len(inp) |-> k]]

\* rings.append(ogr.Geometry(ogr.wkbLinearRing)); ring = rings[-1]
NewRing(b) ==
    [b EXCEPT !.rings = Append(@, <<>>), !.ringSegs = Append(@, <<>>)]

\* mutant: the first segment of a ring is added from its last point backwards
first_line_Reversed(b, inp) ==
    LET n == Len(b.rings)
        k == Head(b.list_vertices)
    IN  [b EXCEPT !.rings[n] = @ \o Reverse(inp[k]),
                  !.ringSegs[n] = Append(@, k),
                  !.list_vertices = Tail(@)]

\* first_line(ring, list_vertices): all points of list_vertices[0], forward,
\* then list_vertices.pop(0).  Only called on a non-empty list here; on an
\* empty one list_vertices[0] raises IndexError (see build_bound).
first_line(b, inp) ==
    LET n == Len(b.rings)
        k == Head(b.list_vertices)
    IN  [b EXCEPT !.rings[n] = @ \o inp[k],
                  !.ringSegs[n] = Append(@, k),
                  !.list_vertices = Tail(@)]

\* the points add_boundary appends for one segment
FrontPoints(vertices) == SubSeq(vertices, 2, Len(vertices))

\* mutant: the 'back' range starts at the last index, the join point is added again
BackPoints_KeepJoin(vertices) == Reverse(vertices)

BackPoints(vertices) == Reverse(SubSeq(vertices, 1, Len(vertices) - 1))

\* mutant: the joined segment is not removed from list_vertices
add_boundary_NoPop(position, direction, b, inp) ==
    LET n == Len(b.rings)
        k == b.list_vertices[position]
        vertices == inp[k]
        added == IF direction = "front" THEN FrontPoints(vertices)
                 ELSE BackPoints(vertices)
    IN  [b EXCEPT !.rings[n] = @ \o added,
                  !.ringSegs[n] = Append(@, k)]

\* mutant: list_vertices.pop(0) instead of list_vertices.pop(position)
add_boundary_PopHead(position, direction, b, inp) ==
    LET n == Len(b.rings)
        k == b.list_vertices[position]
        vertices == inp[k]
        added == IF direction = "front" THEN FrontPoints(vertices)
                 ELSE BackPoints(vertices)
    IN  [b EXCEPT !.rings[n] = @ \o added,
                  !.ringSegs[n] = Append(@, k),
                  !.list_vertices = Tail(@)]

\* add_boundary(position, direction, list_vertices, ring); position from 1
add_boundary(position, direction, b, inp) ==
    LET n == Len(b.rings)
        k == b.list_vertices[position]
        vertices == inp[k]
        added == IF direction = "front" THEN FrontPoints(vertices)
                 ELSE BackPoints(vertices)
    IN  [b EXCEPT !.rings[n] = @ \o added,
                  !.ringSegs[n] = Append(@, k),
                  !.list_vertices = RemoveAt(@, position)]

\* search = (ring.GetX(ring.GetPointCount() - 1), ring.GetY(...))
Search(b) == Last(Last(b.rings))

\* the positions of list_vertices whose segment contains the search point
Matches(b, inp) ==
    {p \in 1..Len(b.list_vertices) : Contains(inp[b.list_vertices[p]], Search(b))}

\* the for loop breaks at the first such position
FirstMatch(b, inp) == SetMin(Matches(b, inp))

\* mutant: the opposite orientation is not recognised
Direction_AlwaysFront(b, inp, position) == "front"

\* index 0: same orientation, 'front'; index > 0: 'back'
Direction(b, inp, position) ==
    IF IndexOf(inp[b.list_vertices[position]], Search(b)) = 0 THEN "front"
    ELSE "back"

\* one pass of `while len(list_vertices) > 0`
LoopBody(b, inp) ==
    IF Matches(b, inp) # {}
    THEN add_boundary(FirstMatch(b, inp), Direction(b, inp, FirstMatch(b, inp)), b, inp)
    ELSE first_line(NewRing(b), inp)

RECURSIVE RunLoop(_, _)
RunLoop(b, inp) ==
    IF Len(b.list_vertices) > 0 THEN RunLoop(LoopBody(b, inp), inp) ELSE b

(***************************************************************************)
(* build_bound: closure test, envelopes, outer ring, polygon               *)
(***************************************************************************)
\* first != last
Unclosed(ring) == ring[1] # Last(ring)

\* poly.GetEnvelope(): (minX, maxX, minY, maxY)
Envelope(ring) ==
    << SetMin({ring[i][1] : i \in 1..Len(ring)}),
       SetMax({ring[i][1] : i \in 1..Len(ring)}),
       SetMin({ring[i][2] : i \in 1..Len(ring)}),
       SetMax({ring[i][2] : i \in 1..Len(ring)}) >>

\* list.index(value), counted from 1 here
ListIndex(l, val) == SetMin({i \in 1..Len(l) : l[i] = val})

MinIndex(l) == ListIndex(l, SetMin(Range(l)))

MaxIndex(l) == ListIndex(l, SetMax(Range(l)))

None == [kind |-> "None", rings |-> <<>>]

Polygon(rs) == [kind |-> "Polygon", rings |-> rs]

Raised == [kind |-> "IndexError", rings |-> <<>>]

\* mutant: only the indices of the X extrema are compared
Classify_XOnly(rings) ==
    LET envelops == [i \in 1..Len(rings) |-> Envelope(rings[i])]
        minX == [i \in 1..Len(rings) |-> envelops[i][1]]
        maxX == [i \in 1..Len(rings) |-> envelops[i][2]]
        minX_i == MinIndex(minX)
        maxX_i == MaxIndex(maxX)
    IN  IF minX_i = maxX_i
        THEN Polygon(<<rings[minX_i]>> \o RemoveAt(rings, minX_i))
        ELSE None

\* mutant: the outer ring is not moved to the front of the polygon
Classify_KeepOrder(rings) ==
    LET envelops == [i \in 1..Len(rings) |-> Envelope(rings[i])]
        minX == [i \in 1..Len(rings) |-> envelops[i][1]]
        maxX == [i \in 1..Len(rings) |-> envelops[i][2]]
        minY == [i \in 1..Len(rings) |-> envelops[i][3]]
        maxY == [i \in 1..Len(rings) |-> envelops[i][4]]
        minX_i == MinIndex(minX)
        maxX_i == MaxIndex(maxX)
        minY_i == MinIndex(minY)
        maxY_i == MaxIndex(maxY)
    IN  IF minX_i = maxX_i /\ maxX_i = minY_i /\ minY_i = maxY_i
        THEN Polygon(rings)
        ELSE None

\* the test on holes: the ring whose envelope is extremal on the four bounds
Classify(rings) ==
    LET envelops == [i \in 1..Len(rings) |-> Envelope(rings[i])]
        minX == [i \in 1..Len(rings) |-> envelops[i][1]]
        maxX == [i \in 1..Len(rings) |-> envelops[i][2]]
        minY == [i \in 1..Len(rings) |-> envelops[i][3]]
        maxY == [i \in 1..Len(rings) |-> envelops[i][4]]
        minX_i == MinIndex(minX)
        maxX_i == MaxIndex(maxX)
        minY_i == MinIndex(minY)
        maxY_i == MaxIndex(maxY)
    IN  IF minX_i = maxX_i /\ maxX_i = minY_i /\ minY_i = maxY_i
        THEN Polygon(<<rings[minX_i]>> \o RemoveAt(rings, minX_i))
        ELSE None

\* mutant: only the ring built last is tested for closure
Finish_LastRingOnly(rings) ==
    IF Unclosed(Last(rings)) THEN None
    ELSE IF Len(rings) > 1 THEN Classify(rings)
    ELSE Polygon(<<Last(rings)>>)

\* the part of build_bound after the while loop
Finish(rings) ==
    IF \E i \in 1..Len(rings) : Unclosed(rings[i]) THEN None
    ELSE IF Len(rings) > 1 THEN Classify(rings)
    ELSE Polygon(<<Last(rings)>>)

\* build_bound(list_vertices) as a whole
build_bound(inp) ==
    IF Len(inp) = 0 THEN Raised
    ELSE Finish(RunLoop(first_line(NewRing(EmptyCall(inp)), inp), inp).rings)

(***************************************************************************)
(* The batch drivers build_all_par / build_all_bud                         *)
(***************************************************************************)
MaxIds == 3

MaxLimit == 2

\* what filter_hp / filter_sbp can yield for one id: no segment at all, a
\* closed square, an open chain, a square with a hole, two crossing loops
ProviderLists ==
    { <<>>, <<o1, o2>>, <<s1, s2>>, <<i1, o1, o2>>, <<h1, v1>> }

\* `if limit and counter > limit`: None and 0 are both false
LimitReached(given, lim, cnt) == given /\ lim # 0 /\ cnt > lim

\* layer.StartTransaction()
StartTransaction(t) == [t EXCEPT !.active = TRUE, !.pending = 0]

\* mutant: every created feature is committed at once
CreateFeature_AutoCommit(t) ==
    [t EXCEPT !.committed = @ + 1, !.commits = @ + 1]

\* layer.CreateFeature(value) inside the open transaction
CreateFeature(t) == [t EXCEPT !.pending = @ + 1]

\* layer.CommitTransaction()
CommitTransaction(t) ==
    [active |-> FALSE, pending |-> 0, committed |-> t.committed + t.pending,
     commits |-> t.commits + 1]

\* unclosed.append(id) when build_bound returned None
Unclosed_append(u, id, geom) == IF geom.kind = "None" THEN Append(u, id) ELSE u

(***************************************************************************)
(* State                                                                   *)
(*   input, call, pc, result         one call of build_bound, step by step *)
(*   driver, parcels, provider       which driver runs, the ids (get_par / *)
(*                                   get_bud_id) and the segments per id   *)
(*   limitGiven, limit               the limit argument (None or a number) *)
(*   idx, counter, unclosed          the loop's locals                     *)
(*   features                        the rows created in the layer         *)
(*   tx                              the layer's transaction               *)
(*   bpc                             where the driver is                   *)
(*   passes                          passes of build_bound's while loop    *)
(*   mUrlHistory, mHistoryOrder,     the fields of VfkTextBrowser that     *)
(*   mCurrentRecord                  hold the page history                 *)
(*   lastCall                        the history method called last        *)
(***************************************************************************)
VARIABLES input, call, pc, result, passes,
          driver, parcels, provider, limitGiven, limit,
          idx, counter, unclosed, features, tx, bpc,
          mUrlHistory, mHistoryOrder, mCurrentRecord, lastCall

boundVars == <<input, call, pc, result, passes>>

histVars == <<mUrlHistory, mHistoryOrder, mCurrentRecord, lastCall>>

batchVars == <<driver, parcels, provider, limitGiven, limit,
               idx, counter, unclosed, features, tx, bpc>>

vars == <<boundVars, batchVars, histVars>>

Pending == [kind |-> "pending", rings |-> <<>>]

NoTx == [active |-> FALSE, pending |-> 0, committed |-> 0, commits |-> 0]

BoundIdle ==
    /\ input = <<>>
    /\ call = EmptyCall(<<>>)
    /\ pc = "idle"
    /\ result = Pending
    /\ passes = 0

\* HistoryRecord(): html = u'', no ids; obj tells the objects apart
EmptyRecord == [obj |-> 0, html |-> ""]

\* VfkTextBrowser.__init__
HistoryInit ==
    /\ mUrlHistory = <<>>
    /\ mHistoryOrder = -1
    /\ mCurrentRecord = EmptyRecord
    /\ lastCall = "__init__"

BatchIdle ==
    /\ driver = "none"
    /\ parcels = <<>>
    /\ provider = <<>>
    /\ limitGiven = FALSE
    /\ limit = 0
    /\ idx = 0
    /\ counter = 0
    /\ unclosed = <<>>
    /\ features = <<>>
    /\ tx = NoTx
    /\ bpc = "idle"

(***************************************************************************)
(* One call of build_bound, step by step                                   *)
(***************************************************************************)
Init ==
    /\ input \in Inputs
    /\ call = EmptyCall(input)
    /\ pc = "start"
    /\ result = Pending
    /\ passes = 0
    /\ BatchIdle
    /\ HistoryInit

\* rings = []; rings.append(...); first_line(ring, list_vertices)
Start ==
    /\ pc = "start"
    /\ Len(input) > 0
    /\ call' = first_line(NewRing(call), input)
    /\ pc' = "loop"
    /\ UNCHANGED <<input, result, passes, batchVars, histVars>>

\* list_vertices[0] on an empty list raises IndexError
StartEmpty ==
    /\ pc = "start"
    /\ Len(input) = 0
    /\ call' = NewRing(call)
    /\ pc' = "done"
    /\ result' = build_bound(input)
    /\ UNCHANGED <<input, passes, batchVars, histVars>>

\* a pass of the while loop that finds the search point in a segment
Join ==
    /\ pc = "loop"
    /\ Len(call.list_vertices) > 0
    /\ Matches(call, input) # {}
    /\ call' = LoopBody(call, input)
    /\ passes' = passes + 1
    /\ UNCHANGED <<input, pc, result, batchVars, histVars>>

\* a pass of the while loop that finds none: count1 == count2, new ring
StartRing ==
    /\ pc = "loop"
    /\ Len(call.list_vertices) > 0
    /\ Matches(call, input) = {}
    /\ call' = LoopBody(call, input)
    /\ passes' = passes + 1
    /\ UNCHANGED <<input, pc, result, batchVars, histVars>>

\* the loop has ended: closure test, holes, return
Return ==
    /\ pc = "loop"
    /\ Len(call.list_vertices) = 0
    /\ result' = Finish(call.rings)
    /\ pc' = "done"
    /\ UNCHANGED <<input, call, passes, batchVars, histVars>>

Next == Start \/ StartEmpty \/ Join \/ StartRing \/ Return

Spec == Init /\ [][Next]_vars

(***************************************************************************)
(* A batch run                                                             *)
(***************************************************************************)
InitBatch ==
    /\ BoundIdle
    /\ HistoryInit
    /\ driver \in {"build_all_par", "build_all_bud"}
    /\ \E n \in 0..MaxIds :
          /\ parcels = [j \in 1..n |-> j]
          /\ provider \in [1..n -> ProviderLists]
    /\ limitGiven \in BOOLEAN
    /\ limit \in (IF limitGiven THEN 0..MaxLimit ELSE {0})
    /\ idx = 0
    /\ counter = 0
    /\ unclosed = <<>>
    /\ features = <<>>
    /\ tx = NoTx
    /\ bpc = "init"

\* counter = 0; ids; StartTransaction(); unclosed = []
BatchStart ==
    /\ bpc = "init"
    /\ tx' = StartTransaction(tx)
    /\ bpc' = IF Len(parcels) = 0 THEN "end" ELSE "loop"
    /\ UNCHANGED <<boundVars, histVars, driver, parcels, provider, limitGiven, limit,
                   idx, counter, unclosed, features>>

\* one pass of the for loop in which build_bound returns
BatchStep ==
    /\ bpc = "loop"
    /\ LET id == parcels[idx + 1]
           poly_geom == build_bound(provider[id])
       IN  /\ poly_geom.kind # "IndexError"
           /\ idx' = idx + 1
           /\ unclosed' = Unclosed_append(unclosed, id, poly_geom)
           /\ features' = Append(features, [id |-> id, geom |-> poly_geom])
           /\ tx' = CreateFeature(tx)
           /\ counter' = counter + 1
           /\ bpc' = IF LimitReached(limitGiven, limit, counter') \/ idx' = Len(parcels)
                     THEN "end" ELSE "loop"
    /\ UNCHANGED <<boundVars, histVars, driver, parcels, provider, limitGiven, limit>>

\* one pass of the for loop in which build_bound raises: the exception is
\* not caught, the run ends without CommitTransaction
BatchRaise ==
    /\ bpc = "loop"
    /\ build_bound(provider[parcels[idx + 1]]).kind = "IndexError"
    /\ idx' = idx + 1
    /\ bpc' = "raised"
    /\ UNCHANGED <<boundVars, histVars, driver, parcels, provider, limitGiven, limit,
                   counter, unclosed, features, tx>>

\* after the loop: CommitTransaction()
BatchEnd ==
    /\ bpc = "end"
    /\ tx' = CommitTransaction(tx)
    /\ bpc' = "done"
    /\ UNCHANGED <<boundVars, histVars, driver, parcels, provider, limitGiven, limit,
                   idx, counter, unclosed, features>>

NextBatch == BatchStart \/ BatchStep \/ BatchRaise \/ BatchEnd

SpecBatch == InitBatch /\ [][NextBatch]_vars

(***************************************************************************)
(* The page history of VfkTextBrowser                                      *)
(***************************************************************************)
MaxHistory == 4

\* the pages a record can show
Pages == {"par", "bud"}

\* the three fields as one value
Browser == [mUrlHistory |-> mUrlHistory, mHistoryOrder |-> mHistoryOrder,
            mCurrentRecord |-> mCurrentRecord]

\* list[i] with Python's index i >= 0
At(list, i) == list[i + 1]

\* `1 if order > 0 else order == 0`, the amount goBack subtracts
BackAmount(order) == IF order > 0 THEN 1 ELSE IF order = 0 THEN 1 ELSE 0

\* mutant: the record is taken from the history but the index stays
goBack_KeepOrder(h) ==
    IF Len(h.mUrlHistory) > 1 /\ Len(h.mUrlHistory) - h.mHistoryOrder > 0
       /\ h.mHistoryOrder > 0
    THEN [h EXCEPT !.mCurrentRecord = At(h.mUrlHistory, h.mHistoryOrder - 1)]
    ELSE h

\* goBack()
goBack(h) ==
    IF Len(h.mUrlHistory) > 1 /\ Len(h.mUrlHistory) - h.mHistoryOrder > 0
       /\ h.mHistoryOrder > 0
    THEN [h EXCEPT !.mCurrentRecord = At(h.mUrlHistory, h.mHistoryOrder - 1),
                   !.mHistoryOrder = @ - BackAmount(@)]
    ELSE h

\* goForth()
goForth(h) ==
    IF Len(h.mUrlHistory) > 1 /\ Len(h.mUrlHistory) - h.mHistoryOrder > 1
       /\ h.mHistoryOrder >= 0
    THEN [h EXCEPT !.mCurrentRecord = At(h.mUrlHistory, h.mHistoryOrder + 1),
                   !.mHistoryOrder = @ + 1]
    ELSE h

\* saveHistory(record)
saveHistory(h, record) ==
    LET list == Append(h.mUrlHistory, record)
        order == IF Len(h.mUrlHistory) = 0 THEN 0 ELSE h.mHistoryOrder + 1
    IN  [mUrlHistory |-> list, mHistoryOrder |-> order,
         mCurrentRecord |-> At(list, order)]

\* processAction creates the record it saves: a new object each time
NewRecord(page) == [obj |-> Len(mUrlHistory) + 1, html |-> page]

SetBrowser(h) ==
    /\ mUrlHistory' = h.mUrlHistory
    /\ mHistoryOrder' = h.mHistoryOrder
    /\ mCurrentRecord' = h.mCurrentRecord

InitHistory ==
    /\ BoundIdle
    /\ BatchIdle
    /\ HistoryInit

\* processAction shows a page and emits updateHistory: saveHistory(record)
SaveHistory ==
    /\ Len(mUrlHistory) < MaxHistory
    /\ \E page \in Pages : SetBrowser(saveHistory(Browser, NewRecord(page)))
    /\ lastCall' = "saveHistory"
    /\ UNCHANGED <<boundVars, batchVars>>

GoBack ==
    /\ SetBrowser(goBack(Browser))
    /\ lastCall' = "goBack"
    /\ UNCHANGED <<boundVars, batchVars>>

GoForth ==
    /\ SetBrowser(goForth(Browser))
    /\ lastCall' = "goForth"
    /\ UNCHANGED <<boundVars, batchVars>>

NextHistory == SaveHistory \/ GoBack \/ GoForth

SpecHistory == InitHistory /\ [][NextHistory]_vars

(***************************************************************************)
(* Properties of build_bound (checked under Spec)                          *)
(***************************************************************************)
Returned == pc = "done" /\ Len(input) > 0

\* number of times k occurs in the sequence q
Count(q, k) == Cardinality({i \in 1..Len(q) : q[i] = k})

RECURSIVE Flatten(_)
Flatten(ss) == IF ss = <<>> THEN <<>> ELSE Head(ss) \o Flatten(Tail(ss))

\* C1: whenever build_bound returns a polygon, every ring it built has its
\* first point equal to its last point; if any built ring is unclosed the
\* result is None.
C1_ClosedRings ==
    Returned =>
        /\ result.kind = "Polygon" =>
              \A i \in 1..Len(call.rings) : call.rings[i][1] = Last(call.rings[i])
        /\ (\E i \in 1..Len(call.rings) : call.rings[i][1] # Last(call.rings[i])) =>
              result = None

\* a polygon was returned for an input that made several rings
C1_Witness ==
    /\ Returned
    /\ result.kind = "Polygon"
    /\ Len(call.rings) >= 2
    /\ \E i \in 1..Len(call.rings) : Len(call.ringSegs[i]) >= 2

\* C2: called with an empty segment list, build_bound produces zero rings and
\* returns normally, without raising.
C2_EmptyReturnsNormally ==
    (pc = "done" /\ Len(input) = 0) =>
        /\ result.kind # "IndexError"
        /\ Len(call.rings) = 0

\* C3: for a non-empty input every segment is consumed exactly once and is
\* placed in exactly one ring: at every moment a segment is either still in
\* the list or placed in one ring, once; when the loop has ended the list is
\* empty and as many segments were placed as the input has.
C3_EachSegmentOnce ==
    (pc \in {"loop", "done"} /\ Len(input) > 0) =>
        /\ \A k \in 1..Len(input) :
              Count(call.list_vertices, k) + Count(Flatten(call.ringSegs), k) = 1
        /\ pc = "done" =>
              /\ call.list_vertices = <<>>
              /\ Len(Flatten(call.ringSegs)) = Len(input)

\* the loop has ended after joins and a new ring
C3_Witness ==
    /\ Returned
    /\ Len(input) >= 3
    /\ Len(call.rings) >= 2
    /\ \E r \in 1..Len(call.rings) : Len(call.ringSegs[r]) >= 2
    /\ call.list_vertices = <<>>

\* the input with the points of segment i in reverse order
ReverseAt(inp, i) == [inp EXCEPT ![i] = Reverse(@)]

\* None or polygon, and the rings as unordered sets of points
Outcome(res) == [kind |-> res.kind, rings |-> {Range(res.rings[i]) : i \in 1..Len(res.rings)}]

\* the places (segment, index) where point p occurs in the input
Occurrences(inp, p) ==
    {<<k, i>> \in (1..Len(inp)) \X (1..5) : i <= Len(inp[k]) /\ inp[k][i] = p}

PointsOf(inp) == UNION {Range(inp[k]) : k \in 1..Len(inp)}

\* segments meet only at their end points, at most two segment ends at a point
MeetAtEndsOnly(inp) ==
    \A p \in PointsOf(inp) :
        /\ Cardinality(Occurrences(inp, p)) <= 2
        /\ Cardinality(Occurrences(inp, p)) = 2 =>
              \A o \in Occurrences(inp, p) : o[2] \in {1, Len(inp[o[1]])}

\* C7 as stated: for every segment list and every segment in it, reversing
\* that segment gives the same outcome and, on success, the same rings as
\* sets of points.
C7_DirectionInvariance ==
    Returned =>
        \A i \in 1..Len(input) :
            Outcome(build_bound(ReverseAt(input, i))) = Outcome(result)

\* C7 amended: the same, for segment lists whose segments meet only at their
\* end points, at most two segment ends at any point.
C7_DirectionInvarianceSimple ==
    (Returned /\ MeetAtEndsOnly(input)) =>
        \A i \in 1..Len(input) :
            Outcome(build_bound(ReverseAt(input, i))) = Outcome(result)

\* a polygon of two rings, one of them joined from two sides of which one
\* was taken backwards
C7_Witness ==
    /\ Returned
    /\ MeetAtEndsOnly(input)
    /\ result.kind = "Polygon"
    /\ Len(result.rings) >= 2
    /\ \E i \in 1..Len(input) : Reverse(input[i]) # input[i]
    /\ \E r \in 1..Len(call.rings) :
          Len(call.ringSegs[r]) >= 2 /\ Cardinality(Range(call.rings[r])) >= 3

\* envelope e lies strictly inside envelope f on all four bounds
StrictlyInside(e, f) == f[1] < e[1] /\ e[2] < f[2] /\ f[3] < e[3] /\ e[4] < f[4]

\* the envelopes are distinct and strictly nested
StrictlyNested(rings) ==
    \A i, j \in 1..Len(rings) :
        i # j => \/ StrictlyInside(Envelope(rings[i]), Envelope(rings[j]))
                 \/ StrictlyInside(Envelope(rings[j]), Envelope(rings[i]))

\* the ring whose envelope holds all the others
Outermost(rings) ==
    CHOOSE i \in 1..Len(rings) :
        \A j \in 1..Len(rings) :
            j # i => StrictlyInside(Envelope(rings[j]), Envelope(rings[i]))

\* C8: N > 1 closed rings with distinct, strictly nested envelopes: whatever
\* the order of the rings, the polygon returned has the ring with the
\* extremal envelope first and the N-1 others as holes.
C8_OuterRingChosen ==
    (/\ Returned
     /\ Len(call.rings) > 1
     /\ \A i \in 1..Len(call.rings) : call.rings[i][1] = Last(call.rings[i])
     /\ StrictlyNested(call.rings)) =>
        /\ result.kind = "Polygon"
        /\ Len(result.rings) = Len(call.rings)
        /\ result.rings[1] = call.rings[Outermost(call.rings)]
        /\ Tail(result.rings) = RemoveAt(call.rings, Outermost(call.rings))

\* three nested rings, the outer one built last
C8_Witness ==
    /\ Returned
    /\ Len(call.rings) = 3
    /\ \A i \in 1..Len(call.rings) : call.rings[i][1] = Last(call.rings[i])
    /\ StrictlyNested(call.rings)
    /\ Outermost(call.rings) = 3
    /\ result.kind = "Polygon"

\* the lengths of the segments placed in ring r
SegsOfRing(r) == [j \in 1..Len(call.ringSegs[r]) |-> input[call.ringSegs[r][j]]]

\* C9: on success the points of the input equal the points of the rings plus
\* one point for each join (each segment added to a ring after its first
\* one, the closing one included), in total and ring by ring.
C9_Conservation ==
    (Returned /\ result.kind = "Polygon") =>
        /\ SumLen(input) = SumLen(call.rings) + (Len(input) - Len(call.rings))
        /\ \A r \in 1..Len(call.rings) :
              SumLen(SegsOfRing(r)) = Len(call.rings[r]) + (Len(call.ringSegs[r]) - 1)

\* a ring closed by a backward join, next to a ring of a single segment
C9_Witness ==
    /\ Returned
    /\ result.kind = "Polygon"
    /\ \E r \in 1..Len(call.rings) : Len(call.ringSegs[r]) >= 3
    /\ \E r \in 1..Len(call.rings) : Len(call.ringSegs[r]) = 1

\* C10: every ring of a returned polygon is well-formed: closed, and the
\* closing point occurs nowhere else in the ring.
C10_WellFormedRings ==
    (Returned /\ result.kind = "Polygon") =>
        \A r \in 1..Len(result.rings) :
            /\ result.rings[r][1] = Last(result.rings[r])
            /\ \A i \in 2..(Len(result.rings[r]) - 1) :
                  result.rings[r][i] # result.rings[r][1]

(***************************************************************************)
(* Properties of the batch drivers (checked under SpecBatch)               *)
(***************************************************************************)
\* the size of a commit group, scaled down (the drivers define none)
GroupSize == 2

\* the rows written for id
RowsOf(id) == {r \in 1..Len(features) : features[r].id = id}

\* C4: every id the loop has taken up has exactly one row; the row has no
\* geometry and the id is in the unclosed list once if build_bound returned
\* None for it, else it has the polygon and the id is not in the list; the
\* loop ends only when the ids are exhausted or the limit is reached.
C4_RowPerId ==
    /\ \A j \in 1..idx :
          LET id == parcels[j]
              geom == build_bound(provider[id])
          IN  /\ Cardinality(RowsOf(id)) = 1
              /\ \A r \in RowsOf(id) : features[r].geom = geom
              /\ geom.kind \in {"None", "Polygon"}
              /\ Count(unclosed, id) = (IF geom.kind = "None" THEN 1 ELSE 0)
    /\ bpc \notin {"init", "loop"} =>
          idx = Len(parcels) \/ LimitReached(limitGiven, limit, counter)

\* C5: with a limit L the batch stops after L successful iterations: never
\* more than L polygons are written, for every L >= 0.
C5_LimitRespected ==
    limitGiven =>
        Cardinality({r \in 1..Len(features) : features[r].geom.kind = "Polygon"}) <= limit

\* C6 as stated: the open transaction never holds more than N uncommitted
\* features (N the size of a commit group).
C6_GroupedCommits == tx.pending <= GroupSize

\* C6 amended: a batch run writes all its features in one transaction, opened
\* before the loop and committed once after the loop has ended; until then
\* every feature written is uncommitted in the open transaction.
C6_SingleTransaction ==
    /\ bpc \in {"loop", "end", "raised"} =>
          /\ tx.active
          /\ tx.commits = 0
          /\ tx.committed = 0
          /\ tx.pending = Len(features)
    /\ bpc = "done" =>
          /\ ~tx.active
          /\ tx.commits = 1
          /\ tx.committed = Len(features)
          /\ tx.pending = 0

\* the loop has written a row for each of three or more ids, none committed
C6_Witness ==
    /\ bpc = "end"
    /\ Len(features) >= 3
    /\ tx.pending = Len(features)
    /\ tx.committed = 0

(***************************************************************************)
(* Properties of the steps of build_bound (checked under Spec)             *)
(***************************************************************************)
\* a pass of the while loop that joined a segment to the current ring
JoinStep ==
    /\ pc = "loop"
    /\ passes' = passes + 1
    /\ Len(call'.rings) = Len(call.rings)

\* a pass of the while loop that started a new ring
NewRingStep ==
    /\ pc = "loop"
    /\ passes' = passes + 1
    /\ Len(call'.rings) = Len(call.rings) + 1

\* p is the first or the last point of seg
EndPoint(seg, p) == seg[1] = p \/ Last(seg) = p

\* the position in q of its element k
PositionOf(q, k) == SetMin({i \in 1..Len(q) : q[i] = k})

\* C11: at every extension step the segment joined is the lowest-position
\* remaining segment with the search point as its first or last point (a
\* segment holding it only at an interior index is not joined), and the
\* ring's new last point is the other end point of that segment.
C11_EndpointJoin ==
    [][JoinStep =>
        LET k == Last(Last(call'.ringSegs))
            seg == input[k]
            sp == Search(call)
        IN  /\ EndPoint(seg, sp)
            /\ PositionOf(call.list_vertices, k) =
                 SetMin({p \in 1..Len(call.list_vertices) :
                            EndPoint(input[call.list_vertices[p]], sp)})
            /\ Search(call') = (IF seg[1] = sp THEN Last(seg) ELSE seg[1])
      ]_vars

\* segments i and j of inp have a point in common
Shares(inp, i, j) == Range(inp[i]) \cap Range(inp[j]) # {}

\* the segments connected to those of S through common points
RECURSIVE Reach(_, _)
Reach(inp, S) ==
    LET T == S \cup {j \in 1..Len(inp) : \E i \in S : Shares(inp, i, j)}
    IN  IF T = S THEN S ELSE Reach(inp, T)

\* every end of a segment meets exactly one other segment end
AllEndsPaired(inp) ==
    \A k \in 1..Len(inp) :
        /\ Cardinality(Occurrences(inp, inp[k][1])) = 2
        /\ Cardinality(Occurrences(inp, Last(inp[k]))) = 2

\* the segments form two closed loops that have no point in common
TwoLoops(inp) ==
    /\ Len(inp) >= 2
    /\ MeetAtEndsOnly(inp)
    /\ AllEndsPaired(inp)
    /\ Reach(inp, {1}) # 1..Len(inp)
    /\ LET rest == (1..Len(inp)) \ Reach(inp, {1})
       IN  Reach(inp, {SetMin(rest)}) = rest

\* two envelopes without a common point
EnvelopesDisjoint(e, f) ==
    e[2] < f[1] \/ f[2] < e[1] \/ e[4] < f[3] \/ f[4] < e[3]

\* the passes of the loop: a new ring is started exactly when no remaining
\* segment contains the search point, from the first remaining segment,
\* its points in forward order
C12_NewRingPass ==
    (pc = "loop" /\ passes' = passes + 1) =>
        /\ NewRingStep <=>
              \A p \in 1..Len(call.list_vertices) :
                  ~Contains(input[call.list_vertices[p]], Search(call))
        /\ NewRingStep =>
              /\ Last(call'.rings) = input[Head(call.list_vertices)]
              /\ call'.list_vertices = Tail(call.list_vertices)

\* two closed loops without a common point give two closed rings, and None
\* when their envelopes are disjoint
C12_TwoLoopsTwoRings ==
    (Returned /\ TwoLoops(input)) =>
        /\ Len(call.rings) = 2
        /\ \A r \in 1..2 : call.rings[r][1] = Last(call.rings[r])
        /\ EnvelopesDisjoint(Envelope(call.rings[1]), Envelope(call.rings[2])) =>
              result = None

\* C12: build_bound starts a new ring exactly when no remaining segment
\* contains the search point, seeding it with the first remaining segment in
\* forward order; so two closed loops that share no point give two closed
\* rings, and None when the envelopes of the two loops are disjoint.
C12_NewRing == [][C12_NewRingPass]_vars /\ []C12_TwoLoopsTwoRings

\* two loops with disjoint envelopes were assembled, one of them from two
\* or more segments, and None was returned
C12_Witness ==
    /\ Returned
    /\ TwoLoops(input)
    /\ Len(input) >= 3
    /\ EnvelopesDisjoint(Envelope(call.rings[1]), Envelope(call.rings[2]))
    /\ \E r \in 1..2 : Cardinality(Range(call.rings[r])) >= 3
    /\ result = None

\* envelope e lies inside envelope f, bounds in common allowed
Inside(e, f) == f[1] <= e[1] /\ e[2] <= f[2] /\ f[3] <= e[3] /\ e[4] <= f[4]

\* C13 as stated: the outer ring of a polygon of several rings strictly
\* dominates the envelope of every other ring on every axis; if no ring
\* strictly dominates all the others, None is returned.
C13_StrictDomination ==
    (Returned /\ Len(call.rings) > 1) =>
        /\ result.kind = "Polygon" =>
              \A r \in 2..Len(result.rings) :
                  StrictlyInside(Envelope(result.rings[r]), Envelope(result.rings[1]))
        /\ (~ \E i \in 1..Len(call.rings) : \A j \in 1..Len(call.rings) :
                j # i => StrictlyInside(Envelope(call.rings[j]), Envelope(call.rings[i]))) =>
              result = None

\* C13 amended: the envelope of the outer ring holds the envelope of every
\* other ring, bounds in common allowed; if no ring's envelope holds all the
\* others, None is returned.
C13_Domination ==
    (Returned /\ Len(call.rings) > 1) =>
        /\ result.kind = "Polygon" =>
              \A r \in 2..Len(result.rings) :
                  Inside(Envelope(result.rings[r]), Envelope(result.rings[1]))
        /\ (~ \E i \in 1..Len(call.rings) : \A j \in 1..Len(call.rings) :
                j # i => Inside(Envelope(call.rings[j]), Envelope(call.rings[i]))) =>
              result = None

\* a polygon whose hole has an extremal bound in common with the outer ring
C13_Witness ==
    /\ Returned
    /\ result.kind = "Polygon"
    /\ Len(result.rings) > 1
    /\ \E r \in 2..Len(result.rings) :
          ~StrictlyInside(Envelope(result.rings[r]), Envelope(result.rings[1]))

\* C14: the chaining loop ends for every non-empty segment list: every pass
\* of the while loop removes exactly one segment from the list (joined or
\* seeding a new ring), so after p passes n - 1 - p segments remain, the
\* next pass leaves one segment less, and the loop has made exactly n - 1
\* passes when build_bound returns.
C14_LoopTerminates ==
    (pc \in {"loop", "done"} /\ Len(input) > 0) =>
        /\ passes + Len(call.list_vertices) = Len(input) - 1
        /\ (pc = "loop" /\ Len(call.list_vertices) > 0) =>
              Len(LoopBody(call, input).list_vertices) = Len(call.list_vertices) - 1
        /\ pc = "done" => passes = Len(input) - 1 /\ result # Pending

\* the loop has ended after passes of both kinds
C14_Witness ==
    /\ Returned
    /\ passes >= 3
    /\ passes = Len(input) - 1
    /\ Len(call.rings) >= 2
    /\ Len(call.rings) < Len(input)

(***************************************************************************)
(* Properties of the page history (checked under SpecHistory)              *)
(***************************************************************************)
\* C15: after saveHistory(record) the current record is the record just
\* saved (the one appended last to the history), whatever calls came before.
C15_CurrentIsSaved ==
    lastCall = "saveHistory" => mCurrentRecord = Last(mUrlHistory)

\* the index is -1 for an empty history, else it is a position of the
\* history and the current record is the entry there
C16_IndexInRange ==
    /\ Len(mUrlHistory) = 0 => mHistoryOrder = -1
    /\ Len(mUrlHistory) > 0 =>
          /\ 0 <= mHistoryOrder
          /\ mHistoryOrder < Len(mUrlHistory)
          /\ mCurrentRecord = At(mUrlHistory, mHistoryOrder)

\* the history never shrinks; goBack at index 0 and goForth at the last
\* index change nothing
C16_Step ==
    /\ Len(mUrlHistory') >= Len(mUrlHistory)
    /\ SubSeq(mUrlHistory', 1, Len(mUrlHistory)) = mUrlHistory
    /\ (lastCall' = "goBack" /\ mHistoryOrder = 0) =>
          UNCHANGED <<mUrlHistory, mHistoryOrder, mCurrentRecord>>
    /\ (lastCall' = "goForth" /\ mHistoryOrder = Len(mUrlHistory) - 1) =>
          UNCHANGED <<mUrlHistory, mHistoryOrder, mCurrentRecord>>

\* C16: after any sequence of saveHistory / goBack / goForth: an empty
\* history has index -1, otherwise 0 <= index < length and the current record
\* is the entry at the index; the history never shrinks; goBack at index 0
\* and goForth at the last index change nothing.
C16_HistoryInvariant == []C16_IndexInRange /\ [][C16_Step]_vars

\* a page was saved after going back: the index is inside the history
C16_Witness ==
    /\ lastCall = "saveHistory"
    /\ Len(mUrlHistory) >= 3
    /\ mHistoryOrder > 0
    /\ mHistoryOrder < Len(mUrlHistory) - 1

====
